---- MODULE Spec2Model ----
(***************************************************************************)
(* Model of the recursive sitemap crawler of sitemap_crawler.py: the       *)
(* SitemapCrawler object, its discovery of seed sitemaps, the batch loop   *)
(* of crawl_recursive and the pool workers running crawl_sitemap_worker.   *)
(* Strings are sequences of one-character strings, so that parsing,        *)
(* stripping, lower-casing and the domain filter are computed, not assumed.*)
(***************************************************************************)
EXTENDS Integers, Sequences, FiniteSets, TLC

VARIABLES
    base_url,            \* self.base_url  (already rstrip('/')-ed)
    domain,              \* self.domain
    max_workers,         \* self.max_workers
    pdf_urls,            \* self.pdf_urls
    processed_sitemaps,  \* self.processed_sitemaps
    pending_sitemaps,    \* self.pending_sitemaps
    errors,              \* self.errors
    pc,                  \* position of the main thread in crawl_recursive
    seeds,               \* initial_sitemaps of crawl_recursive
    current_batch,       \* current_batch of crawl_recursive
    worker,              \* the pool's tasks of the current batch: url -> [pc, result]
    report,              \* the SitemapResult returned by crawl_recursive
    fetchCount,          \* history: url -> number of GETs parse_sitemap issued for it
    served,              \* history: url -> outcome of the last GET for it
    output_file,         \* the lines of the file save_results wrote, NoFile before
    probes,              \* history: the answers discovery got to its GET and HEADs
    filter_url,          \* the argument of a call of _is_same_domain
    filter_output,       \* <<what the call returned>>, <<>> before
    enqueueCount,        \* history: url -> number of times it was added to pending
    sleepCount           \* history: url -> number of completed sleeps of its workers

vars == <<base_url, domain, max_workers, pdf_urls, processed_sitemaps,
          pending_sitemaps, errors, pc, seeds, current_batch, worker, report,
          fetchCount, served, output_file, probes,
          filter_url, filter_output, enqueueCount, sleepCount>>

----------------------------------------------------------------------------
(* Bounds of the model *)

\* max_workers is drawn from 1..MaxPool
MaxPool == 2

\* the number of tokens a host name is made of, at most
MaxTokens == 3

\* the history counter fetchCount saturates at FetchCap
FetchCap == 2

\* the history counter sleepCount saturates at SleepCap
SleepCap == 2

\* the history counter enqueueCount saturates at EnqueueCap
EnqueueCap == 3

----------------------------------------------------------------------------
(* String literals *)

\* The homepage URLs given to the crawler
\* "http://www.u.e/"
BaseUrlWww ==
    <<"h","t","t","p",":","/","/","w","w","w",".","u",".","e","/">>

\* self.sitemap_locations
\* "/sitemap.xml"
LocSitemapXml ==
    <<"/","s","i","t","e","m","a","p",".","x","m","l">>

\* "/sitemap_index.xml"
LocSitemapIndexXml ==
    <<"/","s","i","t","e","m","a","p","_","i","n","d","e","x",".","x","m","l">>

\* "/sitemaps.xml"
LocSitemapsXml ==
    <<"/","s","i","t","e","m","a","p","s",".","x","m","l">>

\* "/sitemap/"
LocSitemapDir ==
    <<"/","s","i","t","e","m","a","p","/">>

\* "/wp-sitemap.xml"
LocWpSitemapXml ==
    <<"/","w","p","-","s","i","t","e","m","a","p",".","x","m","l">>

\* "/sitemap-index.xml"
LocSitemapDashIndexXml ==
    <<"/","s","i","t","e","m","a","p","-","i","n","d","e","x",".","x","m","l">>

\* Lines a robots.txt body may hold
\* "Sitemap: http://x.e/c.xml"
RobotsLineOther ==
    <<"S","i","t","e","m","a","p",":"," ","h","t","t","p",":","/","/","x",".","e","/","c",".","x","m","l">>

\* "SITEMAP:http://www.u.e/sitemap.xml "
RobotsLineRoot ==
    <<"S","I","T","E","M","A","P",":","h","t","t","p",":","/","/","w","w","w",".","u",".","e","/","s","i","t","e","m","a","p",".","x","m","l"," ">>

\* "Disallow: /"
RobotsLineDisallow ==
    <<"D","i","s","a","l","l","o","w",":"," ","/">>

\* <loc> texts and text lines the site's sitemap documents may hold
\* "http://www.u.e/sitemap.xml"
UrlRoot ==
    <<"h","t","t","p",":","/","/","w","w","w",".","u",".","e","/","s","i","t","e","m","a","p",".","x","m","l">>

\* "http://u.e/a.xml"
UrlChildA ==
    <<"h","t","t","p",":","/","/","u",".","e","/","a",".","x","m","l">>

\* "http://www.u.e/b.xml"
UrlChildB ==
    <<"h","t","t","p",":","/","/","w","w","w",".","u",".","e","/","b",".","x","m","l">>

\* " http://www.u.e/b.xml "
UrlChildBPadded ==
    <<" ","h","t","t","p",":","/","/","w","w","w",".","u",".","e","/","b",".","x","m","l"," ">>

\* "http://x.e/c.xml"
UrlOtherSitemap ==
    <<"h","t","t","p",":","/","/","x",".","e","/","c",".","x","m","l">>

\* "http://g.u.e/d.xml"
UrlSubdomainSitemap ==
    <<"h","t","t","p",":","/","/","g",".","u",".","e","/","d",".","x","m","l">>

\* "http://u.e/d.pdf"
UrlPdf ==
    <<"h","t","t","p",":","/","/","u",".","e","/","d",".","p","d","f">>

\* " http://u.e/d.pdf"
UrlPdfPadded ==
    <<" ","h","t","t","p",":","/","/","u",".","e","/","d",".","p","d","f">>

\* "http://u.e/p"
UrlPage ==
    <<"h","t","t","p",":","/","/","u",".","e","/","p">>

\* "http://x.e/f.pdf"
UrlOtherPdf ==
    <<"h","t","t","p",":","/","/","x",".","e","/","f",".","p","d","f">>

\* "http://www.u.e/g.PDF?v"
UrlPdfQuery ==
    <<"h","t","t","p",":","/","/","w","w","w",".","u",".","e","/","g",".","P","D","F","?","v">>

\* "u.e/n.pdf"
LineNoScheme ==
    <<"u",".","e","/","n",".","p","d","f">>

\* "http://u.e/t.pdf "
LineTextPdf ==
    <<"h","t","t","p",":","/","/","u",".","e","/","t",".","p","d","f"," ">>

----------------------------------------------------------------------------
(* Python string operations, on sequences of characters *)

Whitespace == {" "}

UpperToLower ==
    [c \in {"S", "I", "T", "E", "M", "A", "P", "D", "F"} |->
        CASE c = "S" -> "s" [] c = "I" -> "i" [] c = "T" -> "t"
          [] c = "E" -> "e" [] c = "M" -> "m" [] c = "A" -> "a"
          [] c = "P" -> "p" [] c = "D" -> "d" [] c = "F" -> "f"]

\* str.lower()
Lower(s) ==
    [i \in 1..Len(s) |-> IF s[i] \in DOMAIN UpperToLower THEN UpperToLower[s[i]] ELSE s[i]]

\* str.startswith(p)
StartsWith(s, p) ==
    Len(s) >= Len(p) /\ SubSeq(s, 1, Len(p)) = p

\* the match of re '...$' at the end of the string
EndsWith(s, p) ==
    Len(s) >= Len(p) /\ SubSeq(s, Len(s) - Len(p) + 1, Len(s)) = p

\* p occurs in s (re.search of a literal pattern)
Contains(s, p) ==
    \E i \in 1..(Len(s) - Len(p) + 1) : SubSeq(s, i, i + Len(p) - 1) = p

\* str.find(sub, from): index of the first occurrence at or after from, 0 when none
\* (indices are 1-based here)
FindFrom(s, p, from) ==
    LET hits == {i \in from..(Len(s) - Len(p) + 1) : SubSeq(s, i, i + Len(p) - 1) = p}
    IN  IF hits = {} THEN 0 ELSE CHOOSE i \in hits : \A j \in hits : i <= j

\* str.strip()
Strip(s) ==
    LET keep == {i \in 1..Len(s) : s[i] \notin Whitespace}
    IN  IF keep = {} THEN <<>>
        ELSE SubSeq(s, CHOOSE i \in keep : \A j \in keep : i <= j,
                       CHOOSE i \in keep : \A j \in keep : i >= j)

\* str.rstrip('/')
RStripSlash(s) ==
    LET keep == {i \in 1..Len(s) : s[i] # "/"}
    IN  IF keep = {} THEN <<>>
        ELSE SubSeq(s, 1, CHOOSE i \in keep : \A j \in keep : i >= j)

\* str.replace(old, new): every non-overlapping occurrence, left to right
RECURSIVE Replace(_, _, _)
Replace(s, old, new) ==
    LET i == FindFrom(s, old, 1)
    IN  IF i = 0 THEN s
        ELSE SubSeq(s, 1, i - 1) \o new
             \o Replace(SubSeq(s, i + Len(old), Len(s)), old, new)

\* str.split(':', 1)[1]: what follows the first colon
AfterFirstColon(s) ==
    SubSeq(s, FindFrom(s, <<":">>, 1) + 1, Len(s))

----------------------------------------------------------------------------
(* urllib.parse *)

Letters ==
    {"a", "b", "c", "d", "e", "f", "g", "h", "i", "l", "m", "n", "p", "s", "t",
     "u", "v", "w", "x", "A", "D", "E", "F", "I", "M", "P", "S", "T"}

\* urllib.parse.scheme_chars, over the characters in use
SchemeChars == Letters \cup {"+", "-", "."}

\* length of the "<scheme>:" prefix urlsplit removes, 0 when it finds no scheme
SchemePrefixLen(url) ==
    LET i == FindFrom(url, <<":">>, 1)
    IN  IF i > 1 /\ url[1] \in Letters /\ \A k \in 1..(i - 1) : url[k] \in SchemeChars
        THEN i ELSE 0

\* urlparse(url).netloc
Netloc(url) ==
    LET rest  == SubSeq(url, SchemePrefixLen(url) + 1, Len(url))
        stops == {i \in 3..Len(rest) : rest[i] \in {"/", "?", "#"}}
        stop  == IF stops = {} THEN Len(rest) + 1
                 ELSE CHOOSE i \in stops : \A j \in stops : i <= j
    IN  IF StartsWith(rest, <<"/", "/">>) THEN SubSeq(rest, 3, stop - 1) ELSE <<>>

\* urljoin(base, location) for a location that is an absolute path
UrlJoin(base, location) ==
    SubSeq(base, 1, SchemePrefixLen(base)) \o <<"/", "/">> \o Netloc(base) \o location

----------------------------------------------------------------------------
(* SitemapCrawler: constants and pure methods *)

WwwDot == <<"w", "w", "w", ".">>

DotPdf == <<".", "p", "d", "f">>

DotPdfQuery == <<".", "p", "d", "f", "?">>

sitemap_locations ==
    {LocSitemapXml, LocSitemapIndexXml, LocSitemapsXml, LocSitemapDir,
     LocWpSitemapXml, LocSitemapDashIndexXml}

\* SitemapCrawler._is_same_domain
IsSameDomain(url, dom) ==
    LET netloc == Netloc(url)
    IN  \/ netloc = dom
        \/ netloc = WwwDot \o dom
        \/ netloc = Replace(dom, WwwDot, <<>>)

\* SitemapCrawler.is_pdf_url: re '\.pdf$' or '\.pdf\?', IGNORECASE
IsPdfUrl(url) ==
    \/ EndsWith(Lower(url), DotPdf)
    \/ Contains(Lower(url), DotPdfQuery)

EmptyResult == [urls |-> {}, sitemaps |-> {}, pdfs |-> {}]

\* the <loc> texts that are present and non-empty, stripped
LocTexts(locs) == {Strip(t) : t \in {x \in locs : x # <<>>}}

\* faulty variant of ParseBody: the PDF classification is applied outside the domain test
ParseBodyPdfsUnfiltered(doc, dom) ==
    IF ~doc.wellformed THEN EmptyResult
    ELSE IF doc.sitemap_locs = {} /\ doc.url_locs = {}
    THEN LET http == {l \in {Strip(x) : x \in doc.lines} : StartsWith(l, <<"h", "t", "t", "p">>)}
         IN  [urls |-> {l \in http : IsSameDomain(l, dom)}, sitemaps |-> {},
              pdfs |-> {l \in http : IsPdfUrl(l)}]
    ELSE [urls |-> {u \in LocTexts(doc.url_locs) : IsSameDomain(u, dom)},
          sitemaps |-> {s \in LocTexts(doc.sitemap_locs) : IsSameDomain(s, dom)},
          pdfs |-> {u \in LocTexts(doc.url_locs) : IsPdfUrl(u)}]

\* parse_sitemap, from the response body to the result dictionary
ParseBody(doc, dom) ==
    IF ~doc.wellformed THEN EmptyResult
    ELSE IF doc.sitemap_locs = {} /\ doc.url_locs = {}
    THEN LET kept == {l \in {Strip(x) : x \in doc.lines} :
                          StartsWith(l, <<"h", "t", "t", "p">>) /\ IsSameDomain(l, dom)}
         IN  [urls |-> kept, sitemaps |-> {}, pdfs |-> {l \in kept : IsPdfUrl(l)}]
    ELSE LET nested == {s \in LocTexts(doc.sitemap_locs) : IsSameDomain(s, dom)}
             kept   == {u \in LocTexts(doc.url_locs) : IsSameDomain(u, dom)}
         IN  [urls |-> kept, sitemaps |-> nested, pdfs |-> {u \in kept : IsPdfUrl(u)}]

\* get_robots_txt_sitemaps, from the lines of a 200 response
RobotsSitemaps(lines) ==
    {Strip(AfterFirstColon(Strip(l))) :
        l \in {x \in lines : StartsWith(Lower(Strip(x)), <<"s", "i", "t", "e", "m", "a", "p", ":">>)}}

----------------------------------------------------------------------------
(* The site: what the HTTP server may answer *)

\* homepage URLs the crawler may be constructed with
BaseUrls == {BaseUrlWww}

\* lines a robots.txt body is made of
RobotsLines == {RobotsLineOther, RobotsLineRoot, RobotsLineDisallow}

\* conventional paths the site may answer HEAD with 200 for
LivePaths == {LocSitemapXml, LocSitemapIndexXml}

\* response bodies of a sitemap GET: well-formedness as XML, the texts of the
\* <sitemap><loc> and <url><loc> elements, and the text lines of the body
DocBody ==
    [index     |-> [wellformed |-> TRUE,
                    sitemap_locs |-> {UrlChildA, UrlChildBPadded, UrlOtherSitemap, UrlSubdomainSitemap},
                    url_locs |-> {}, lines |-> {}],
     cycle     |-> [wellformed |-> TRUE,
                    sitemap_locs |-> {UrlRoot, UrlChildA, UrlChildB},
                    url_locs |-> {UrlPdf}, lines |-> {}],
     urlset    |-> [wellformed |-> TRUE,
                    sitemap_locs |-> {},
                    url_locs |-> {UrlPdfPadded, UrlPage, UrlOtherPdf, UrlPdfQuery, <<>>},
                    lines |-> {}],
     text      |-> [wellformed |-> TRUE,
                    sitemap_locs |-> {}, url_locs |-> {},
                    lines |-> {LineTextPdf, LineNoScheme, UrlOtherPdf}],
     malformed |-> [wellformed |-> FALSE,
                    sitemap_locs |-> {}, url_locs |-> {},
                    lines |-> {UrlPdf}]]

\* "http://www.u.e/sitemap_index.xml"
UrlRootIndex == UrlJoin(BaseUrlWww, LocSitemapIndexXml)

\* the bodies the site may answer a GET of a sitemap URL with
Docs(u) ==
    CASE u = UrlRoot         -> {"index", "malformed"}
      [] u = UrlRootIndex    -> {"cycle", "text"}
      [] u = UrlOtherSitemap -> {"urlset"}
      [] u = UrlChildA       -> {"urlset", "text"}
      [] u = UrlChildB       -> {"cycle", "malformed"}
      [] OTHER               -> {"malformed"}

DocNames == DOMAIN DocBody

\* parse_sitemap applied to every body, for every domain the crawler may have
\* (the value of ParseBody, tabulated)
ParseTable ==
    [dom \in {Netloc(b) : b \in BaseUrls} |->
        [d \in DocNames |-> ParseBody(DocBody[d], dom)]]

\* outcomes of session.get + raise_for_status + parsing that raise
Failures == {"request_error", "unexpected_error"}

----------------------------------------------------------------------------
(* State *)

NoReport == [pdf_urls |-> {}, sitemap_urls |-> {}, processed_sitemaps |-> {}, errors |-> <<>>]

\* discovery has not run, or its answers are not recorded
NoProbes == [robots |-> "none", body |-> {}, head |-> <<>>]

\* no file has been written
NoFile == <<"no file">>

\* SitemapCrawler.__init__ for the homepage URLs of B
Construct(B) ==
    /\ \E b \in B :
          /\ base_url = RStripSlash(b)
          /\ domain = Netloc(b)
    /\ max_workers \in 1..MaxPool
    /\ pdf_urls = {}
    /\ processed_sitemaps = {}
    /\ pending_sitemaps = {}
    /\ errors = <<>>
    /\ pc = "discover"
    /\ seeds = {}
    /\ current_batch = {}
    /\ worker = <<>>
    /\ report = NoReport
    /\ fetchCount = <<>>
    /\ served = <<>>
    /\ output_file = NoFile
    /\ probes = NoProbes
    /\ filter_output = <<>>
    /\ enqueueCount = <<>>
    /\ sleepCount = <<>>

\* a crawler constructed for the site
Init ==
    /\ Construct(BaseUrls)
    /\ filter_url = <<>>

config == <<base_url, domain, max_workers>>
aux == <<output_file, probes, filter_url, filter_output, enqueueCount>>
filter == <<filter_url, filter_output>>
history == <<fetchCount, served>>

\* workers of the pool that are running a task
Running == {u \in DOMAIN worker : worker[u].pc \notin {"queued", "done"}}

----------------------------------------------------------------------------
(* Main thread: crawl_recursive *)

\* discover_sitemaps: robots.txt (lines of a 200 answer, none otherwise) and one
\* HEAD probe per conventional location
DiscoverSitemaps(robotsOk, robotsBody, live) ==
    (IF robotsOk THEN RobotsSitemaps(robotsBody) ELSE {})
        \cup {UrlJoin(base_url, l) : l \in live}

\* faulty variant of EmptyDiscoveryResult: the error message is left out
EmptyDiscoveryResultNoError ==
    [pdf_urls |-> {}, sitemap_urls |-> {}, processed_sitemaps |-> {}, errors |-> <<>>]

\* line 287: the result returned when discovery found nothing
EmptyDiscoveryResult ==
    [pdf_urls |-> {}, sitemap_urls |-> {}, processed_sitemaps |-> {},
     errors |-> <<[msg |-> "No sitemaps found", url |-> <<>>]>>]

\* the number of times u was added to pending
Enqueued(u) == IF u \in DOMAIN enqueueCount THEN enqueueCount[u] ELSE 0

\* history: the URLs of S are passed to pending_sitemaps.update
LogEnqueue(S) ==
    enqueueCount' = [u \in DOMAIN enqueueCount \cup S |->
                        IF u \in S /\ Enqueued(u) < EnqueueCap
                        THEN Enqueued(u) + 1 ELSE Enqueued(u)]

\* lines 283-290: the early return when discovery found nothing, else the
\* seeds are put into pending
DiscoverStep(initial_sitemaps) ==
    /\ seeds' = initial_sitemaps
    /\ LogEnqueue(initial_sitemaps)
    /\ IF initial_sitemaps = {}
       THEN /\ report' = EmptyDiscoveryResult
            /\ pc' = "done"
            /\ UNCHANGED pending_sitemaps
       ELSE /\ pending_sitemaps' = pending_sitemaps \cup initial_sitemaps
            /\ pc' = "while"
            /\ UNCHANGED report

\* line 283: discovery on a site that answers 200 on some of LivePaths
Discover ==
    /\ pc = "discover"
    /\ \E robotsOk \in BOOLEAN, robotsBody \in SUBSET RobotsLines,
          live \in SUBSET (sitemap_locations \cap LivePaths) :
          DiscoverStep(DiscoverSitemaps(robotsOk, robotsBody, live))
    /\ UNCHANGED <<config, output_file, probes, filter, pdf_urls, processed_sitemaps, errors, current_batch, worker, history, sleepCount>>

\* what a GET of robots.txt or a HEAD of a location ends in: status 200,
\* another status, an exception of the session
ProbeOutcomes == {"200", "other", "exception"}

\* line 69: the order in which the locations are probed
SitemapLocationOrder ==
    <<LocSitemapXml, LocSitemapIndexXml, LocSitemapsXml, LocSitemapDir,
      LocWpSitemapXml, LocSitemapDashIndexXml>>

\* faulty variant of LiveLocations: an exception ends the loop over the locations
LiveLocationsStopAtException(head) ==
    {SitemapLocationOrder[i] : i \in
        {k \in 1..Len(SitemapLocationOrder) :
            /\ head[SitemapLocationOrder[k]] = "200"
            /\ \A j \in 1..(k - 1) : head[SitemapLocationOrder[j]] # "exception"}}

\* lines 129-137: the loop keeps a location when its HEAD answers 200; an
\* exception is logged inside the loop body
LiveLocations(head) ==
    {SitemapLocationOrder[i] : i \in
        {k \in 1..Len(SitemapLocationOrder) : head[SitemapLocationOrder[k]] = "200"}}

\* line 283: discovery on a site that may answer or fail in any way on
\* robots.txt and on each of the six locations; the answers are recorded
DiscoverProbed ==
    /\ pc = "discover"
    /\ \E robots \in ProbeOutcomes, robotsBody \in SUBSET RobotsLines,
          head \in [sitemap_locations -> ProbeOutcomes] :
          /\ DiscoverStep(DiscoverSitemaps(robots = "200", robotsBody, LiveLocations(head)))
          /\ probes' = [robots |-> robots, body |-> robotsBody, head |-> head]
    /\ UNCHANGED <<config, output_file, filter, pdf_urls, processed_sitemaps, errors, current_batch,
                   worker, history, sleepCount>>

\* line 293: the while test
LoopTest ==
    /\ pc = "while"
    /\ pc' = IF pending_sitemaps # {} THEN "drain" ELSE "finish"
    /\ UNCHANGED <<config, aux, pdf_urls, processed_sitemaps, pending_sitemaps, errors, seeds,
                   current_batch, worker, report, history, sleepCount>>

\* faulty variant of TakeBatch: processed is not subtracted
TakeBatchKeepProcessed(pending, processed) == pending

\* line 296: the batch taken from pending
TakeBatch(pending, processed) == pending \ processed

\* lines 295-300: the drain under the lock, and the break on an empty batch
Drain ==
    /\ pc = "drain"
    /\ current_batch' = TakeBatch(pending_sitemaps, processed_sitemaps)
    /\ pending_sitemaps' = {}
    /\ pc' = IF current_batch' = {} THEN "finish" ELSE "submit"
    /\ UNCHANGED <<config, aux, pdf_urls, processed_sitemaps, errors, seeds, worker, report, history, sleepCount>>

\* lines 305-309: one task per URL of the batch is submitted to a new pool
Submit ==
    /\ pc = "submit"
    /\ worker' = [u \in current_batch |-> [pc |-> "queued", result |-> EmptyResult]]
    /\ pc' = "wait"
    /\ UNCHANGED <<config, aux, pdf_urls, processed_sitemaps, pending_sitemaps, errors, seeds,
                   current_batch, report, history, sleepCount>>

\* faulty variant of PoolDrained: the main thread leaves once one future has completed
PoolDrainedAny(w) == \E u \in DOMAIN w : w[u].pc = "done"

\* what the main thread waits for before it leaves the with block of line 305
PoolDrained(w) == \A u \in DOMAIN w : w[u].pc = "done"

\* lines 311-319 and the exit of the with block: every future has completed
\* (no worker raises: parse_sitemap catches every Exception, and delay >= 0)
ExecutorExit ==
    /\ pc = "wait"
    /\ PoolDrained(worker)
    /\ pc' = "while"
    /\ UNCHANGED <<config, aux, pdf_urls, processed_sitemaps, pending_sitemaps, errors, seeds,
                   current_batch, worker, report, history, sleepCount>>

\* lines 322-331: the result is built from copies of the crawler's fields
Finish ==
    /\ pc = "finish"
    /\ report' = [pdf_urls |-> pdf_urls, sitemap_urls |-> processed_sitemaps,
                  processed_sitemaps |-> processed_sitemaps, errors |-> errors]
    /\ pc' = "done"
    /\ UNCHANGED <<config, aux, pdf_urls, processed_sitemaps, pending_sitemaps, errors, seeds,
                   current_batch, worker, history, sleepCount>>

----------------------------------------------------------------------------
(* main: save_results *)

\* the characters in use, in code point order
CodePointOrder ==
    <<" ", "#", "+", "-", ".", "/", "0", "1", "2", "3", "4", "5", "6", "7", "8", "9", ":", "?", "A", "D", "E", "F", "I", "L", "M", "P", "R", "S", "T", "U", "_", "a", "b", "c", "d", "e", "f", "g", "h", "i", "l", "m", "n", "o", "p", "r", "s", "t", "u", "v", "w", "x">>

CodePoint(c) == CHOOSE i \in 1..Len(CodePointOrder) : CodePointOrder[i] = c

\* str < str: lexicographic by code point, a proper prefix first
StrLess(a, b) ==
    \E i \in 1..(Len(a) + 1) :
        /\ i <= Len(b)
        /\ \A k \in 1..(i - 1) : a[k] = b[k]
        /\ i = Len(a) + 1 \/ CodePoint(a[i]) < CodePoint(b[i])

\* faulty variant of SortedList: descending order
RECURSIVE SortedListDescending(_)
SortedListDescending(S) ==
    IF S = {} THEN <<>>
    ELSE LET m == CHOOSE x \in S : \A y \in S \ {x} : StrLess(y, x)
         IN  <<m>> \o SortedListDescending(S \ {m})

\* sorted(set of str)
RECURSIVE SortedList(_)
SortedList(S) ==
    IF S = {} THEN <<>>
    ELSE LET m == CHOOSE x \in S : \A y \in S \ {x} : StrLess(x, y)
         IN  <<m>> \o SortedList(S \ {m})

Digits == <<"0", "1", "2", "3", "4", "5", "6", "7", "8", "9">>

\* str(n) for n >= 0
RECURSIVE Str(_)
Str(n) == IF n < 10 THEN <<Digits[n + 1]>> ELSE Str(n \div 10) \o <<Digits[(n % 10) + 1]>>

\* "# PDF URLs found on "
HeaderFoundOn ==
    <<"#", " ", "P", "D", "F", " ", "U", "R", "L", "s", " ", "f", "o", "u", "n", "d", " ", "o", "n", " ">>

\* "# Total PDFs: "
HeaderTotal ==
    <<"#", " ", "T", "o", "t", "a", "l", " ", "P", "D", "F", "s", ":", " ">>

\* "# Sitemaps processed: "
HeaderProcessed ==
    <<"#", " ", "S", "i", "t", "e", "m", "a", "p", "s", " ", "p", "r", "o", "c", "e", "s", "s", "e", "d", ":", " ">>

\* lines 343-348: the lines written to the file
FileLines(result) ==
    <<HeaderFoundOn \o base_url,
      HeaderTotal \o Str(Cardinality(result.pdf_urls)),
      HeaderProcessed \o Str(Cardinality(result.processed_sitemaps)),
      <<>>>>
    \o SortedList(result.pdf_urls)

\* lines 341-350: main calls save_results with the returned result
SaveResults ==
    /\ pc = "done"
    /\ output_file' = FileLines(report)
    /\ pc' = "saved"
    /\ UNCHANGED <<config, probes, filter, enqueueCount, pdf_urls, processed_sitemaps, pending_sitemaps, errors, seeds,
                   current_batch, worker, report, history, sleepCount>>

\* lines 352-353: the file cannot be opened; the error is logged
SaveResultsFail ==
    /\ pc = "done"
    /\ pc' = "saved"
    /\ UNCHANGED <<config, aux, pdf_urls, processed_sitemaps, pending_sitemaps, errors, seeds,
                   current_batch, worker, report, history, sleepCount>>

----------------------------------------------------------------------------
(* Pool threads: crawl_sitemap_worker *)

\* faulty variant of PoolHasIdleThread: one thread more than max_workers
PoolHasIdleThreadOffByOne(running, limit) == Cardinality(running) <= limit

\* line 305: the pool starts a queued task only on one of its max_workers threads
PoolHasIdleThread(running, limit) == Cardinality(running) < limit

\* faulty variant of AfterPrecheck: the delay is left out
AfterPrecheckNoDelay(processed, u) == IF u \in processed THEN "done" ELSE "fetch"

\* lines 254-258: the return on a processed URL, else the delay comes next
AfterPrecheck(processed, u) == IF u \in processed THEN "done" ELSE "sleep"

\* a pool thread takes the task and runs line 254
WorkerStart(u) ==
    /\ worker[u].pc = "queued"
    /\ PoolHasIdleThread(Running, max_workers)
    /\ worker' = [worker EXCEPT ![u].pc = AfterPrecheck(processed_sitemaps, u)]
    /\ UNCHANGED <<config, aux, pdf_urls, processed_sitemaps, pending_sitemaps, errors, pc, seeds,
                   current_batch, report, history, sleepCount>>

\* the number of sleeps completed for u
Slept(u) == IF u \in DOMAIN sleepCount THEN sleepCount[u] ELSE 0

\* line 258: time.sleep(self.delay) returns
WorkerSleep(u) ==
    /\ worker[u].pc = "sleep"
    /\ worker' = [worker EXCEPT ![u].pc = "fetch"]
    /\ sleepCount' = [x \in DOMAIN sleepCount \cup {u} |->
                         IF x = u /\ Slept(x) < SleepCap THEN Slept(x) + 1 ELSE Slept(x)]
    /\ UNCHANGED <<config, aux, pdf_urls, processed_sitemaps, pending_sitemaps, errors, pc, seeds,
                   current_batch, report, history>>

\* the history of GETs
LogFetch(u, outcome) ==
    /\ fetchCount' = IF u \in DOMAIN fetchCount
                     THEN [fetchCount EXCEPT ![u] = IF @ < FetchCap THEN @ + 1 ELSE @]
                     ELSE fetchCount @@ (u :> 1)
    /\ served' = IF u \in DOMAIN served
                 THEN [served EXCEPT ![u] = outcome]
                 ELSE served @@ (u :> outcome)

\* lines 165-215 of parse_sitemap: the GET answers with a body, which is parsed
WorkerFetchOk(u) ==
    /\ worker[u].pc = "fetch"
    /\ \E d \in Docs(u) :
          /\ worker' = [worker EXCEPT ![u] = [pc |-> "merge", result |-> ParseTable[domain][d]]]
          /\ LogFetch(u, d)
    /\ UNCHANGED <<config, aux, pdf_urls, processed_sitemaps, pending_sitemaps, errors, pc, seeds,
                   current_batch, report, sleepCount>>

\* lines 167-168, 217, 223: the GET times out, fails or answers an error status
\* (RequestException), or another Exception is raised
WorkerFetchFail(u) ==
    /\ worker[u].pc = "fetch"
    /\ \E f \in Failures :
          /\ worker' = [worker EXCEPT ![u].pc = f]
          /\ LogFetch(u, f)
    /\ UNCHANGED <<config, aux, pdf_urls, processed_sitemaps, pending_sitemaps, errors, pc, seeds,
                   current_batch, report, sleepCount>>

\* the message of lines 218 and 224
ErrorEntry(f, u) ==
    [msg |-> IF f = "request_error" THEN "Request error for" ELSE "Unexpected error parsing",
     url |-> u]

\* faulty variant of AppendError: the error is logged and not appended
AppendErrorDropped(errs, f, u) == errs

\* lines 221 and 227: self.errors.append(error_msg)
AppendError(errs, f, u) == Append(errs, ErrorEntry(f, u))

\* lines 218-229: the except clause appends the error under the lock and
\* parse_sitemap returns the empty result
WorkerRecordError(u) ==
    /\ worker[u].pc \in Failures
    /\ errors' = AppendError(errors, worker[u].pc, u)
    /\ worker' = [worker EXCEPT ![u].pc = "merge"]
    /\ UNCHANGED <<config, aux, pdf_urls, processed_sitemaps, pending_sitemaps, pc, seeds,
                   current_batch, report, history, sleepCount>>

\* faulty variant of MarkProcessed: the URL is not marked
MarkProcessedSkipped(processed, u) == processed

\* faulty variant of MarkProcessed: processed_sitemaps is assigned, not updated
MarkProcessedOverwrite(processed, u) == {u}

\* line 265
MarkProcessed(processed, u) == processed \cup {u}

\* faulty variant of RecordPdfs: pdf_urls is assigned, not updated
RecordPdfsOverwrite(pdfs, result) == result.pdfs

\* line 266
RecordPdfs(pdfs, result) == pdfs \cup result.pdfs

\* faulty variant of NewSitemaps: processed is not subtracted
NewSitemapsIgnoreProcessed(result, processed, pending) == result.sitemaps \ pending

\* faulty variant of NewSitemaps: pending is not subtracted
NewSitemapsIgnorePending(result, processed, pending) == result.sitemaps \ processed

\* line 269, evaluated after line 265
NewSitemaps(result, processed, pending) == (result.sitemaps \ processed) \ pending

\* faulty variant of MergePending: the new sitemaps are not merged
MergePendingSkipped(pending, new_sitemaps) == pending

\* faulty variant of MergePending: pending is assigned, not updated
MergePendingOverwrite(pending, new_sitemaps) == new_sitemaps

\* line 270
MergePending(pending, new_sitemaps) == pending \cup new_sitemaps

\* lines 264-270: the merge under the lock
WorkerMerge(u) ==
    /\ worker[u].pc = "merge"
    /\ processed_sitemaps' = MarkProcessed(processed_sitemaps, u)
    /\ pdf_urls' = RecordPdfs(pdf_urls, worker[u].result)
    /\ LET new_sitemaps == NewSitemaps(worker[u].result, processed_sitemaps', pending_sitemaps)
       IN  /\ pending_sitemaps' = MergePending(pending_sitemaps, new_sitemaps)
           /\ LogEnqueue(new_sitemaps)
    /\ worker' = [worker EXCEPT ![u] = [pc |-> "done", result |-> EmptyResult]]
    /\ UNCHANGED <<config, output_file, probes, filter, errors, pc, seeds, current_batch, report, history, sleepCount>>

Workers ==
    \/ \E u \in DOMAIN worker : WorkerStart(u)
    \/ \E u \in DOMAIN worker : WorkerSleep(u)
    \/ \E u \in DOMAIN worker : WorkerFetchOk(u)
    \/ \E u \in DOMAIN worker : WorkerFetchFail(u)
    \/ \E u \in DOMAIN worker : WorkerRecordError(u)
    \/ \E u \in DOMAIN worker : WorkerMerge(u)

Main == Discover \/ LoopTest \/ Drain \/ Submit \/ ExecutorExit \/ Finish
           \/ SaveResults \/ SaveResultsFail

Next == Main \/ Workers

Spec == Init /\ [][Next]_vars

\* the pool runs its threads and every GET returns or fails within its timeout
\* the pieces host names are made of
Tokens == {WwwDot, <<"a">>, <<"e">>, <<".">>}

\* the concatenations of at most n tokens
RECURSIVE TokenStrings(_)
TokenStrings(n) ==
    IF n = 0 THEN {<<>>}
    ELSE LET shorter == TokenStrings(n - 1)
         IN  shorter \cup {t \o x : t \in Tokens, x \in shorter}

Hosts == TokenStrings(MaxTokens)

\* "http://" host "/"
HostUrl(h) == <<"h", "t", "t", "p", ":", "/", "/">> \o h \o <<"/">>

\* a crawler constructed for any host, and a URL of any host
FilterInit ==
    /\ Construct({HostUrl(h) : h \in Hosts})
    /\ filter_url \in {HostUrl(h) : h \in Hosts}

\* a call of _is_same_domain
ApplyFilter ==
    /\ filter_output = <<>>
    /\ filter_output' = <<IsSameDomain(filter_url, domain)>>
    /\ UNCHANGED <<config, output_file, probes, filter_url, enqueueCount, pdf_urls, processed_sitemaps,
                   pending_sitemaps, errors, pc, seeds, current_batch, worker, report, history, sleepCount>>

\* the domain filter alone, on every domain and every URL
FilterSpec == FilterInit /\ [][ApplyFilter]_vars

\* discovery alone, on every site
DiscoverySpec == Init /\ [][DiscoverProbed]_vars

FairSpec == Spec /\ WF_vars(Main) /\ WF_vars(Workers)
----------------------------------------------------------------------------
(* Properties *)

\* the URLs whose last GET answered with a body
FetchedOk == {u \in DOMAIN served : served[u] \in DocNames}

\* the same-domain child sitemaps the sitemap index fetched from u lists
SameDomainChildren(u) ==
    IF u \in FetchedOk /\ DocBody[served[u]].wellformed
    THEN {x \in LocTexts(DocBody[served[u]].sitemap_locs) : IsSameDomain(x, domain)}
    ELSE {}

\* the sitemap URLs reachable from S through the fetched sitemap indexes
RECURSIVE Reachable(_)
Reachable(S) ==
    LET T == S \cup UNION {SameDomainChildren(u) : u \in S}
    IN  IF T = S THEN S ELSE Reachable(T)

\* the last GET of u ended with outcome x
ServedAs(u, x) == u \in DOMAIN served /\ served[u] = x

\* the sitemaps that list x as a child
Referrers(x) == {u \in FetchedOk : x \in SameDomainChildren(u)}

\* C1: every sitemap URL is fetched (parse_sitemap issues its GET) at most once
\* in a run, however many sitemaps reference it and whatever the interleaving.
C1_FetchedAtMostOnce ==
    \A u \in DOMAIN fetchCount : fetchCount[u] <= 1

\* a finished crawl in which the root was referenced back by two other
\* sitemaps and one child referenced itself
C1_Witness ==
    /\ pc = "done"
    /\ UrlRoot \in seeds
    /\ Cardinality(Referrers(UrlRoot)) >= 2
    /\ UrlChildB \in Referrers(UrlChildB)
    /\ fetchCount[UrlRoot] = 1

\* C3: when crawl_recursive returns after a non-empty discovery, the processed
\* set is exactly the set of sitemap URLs reachable from the seeds through the
\* same-domain children of the fetched sitemap indexes.
C3_ProcessedIsReachable ==
    (pc = "done" /\ seeds # {}) =>
        /\ report.processed_sitemaps = Reachable(seeds)
        /\ report.sitemap_urls = report.processed_sitemaps

\* the expansion scenario: the root lists A and B, B refers back to the root,
\* and the three are processed
C3_Witness ==
    /\ pc = "done"
    /\ seeds = {UrlRoot}
    /\ ServedAs(UrlRoot, "index")
    /\ UrlChildB \in Referrers(UrlRoot)
    /\ report.processed_sitemaps = {UrlRoot, UrlChildA, UrlChildB}
    /\ Cardinality(report.processed_sitemaps) = 3

\* the same-domain URLs classified as PDF that the body fetched from u lists
ListedPdfs(u) ==
    IF u \in FetchedOk /\ DocBody[served[u]].wellformed
    THEN LET body   == DocBody[served[u]]
             listed == IF body.sitemap_locs = {} /\ body.url_locs = {}
                       THEN {l \in {Strip(x) : x \in body.lines} : StartsWith(l, <<"h", "t", "t", "p">>)}
                       ELSE LocTexts(body.url_locs)
         IN  {x \in listed : IsSameDomain(x, domain) /\ IsPdfUrl(x)}
    ELSE {}

\* C4: the report's PDF set is exactly the union of the same-domain PDF URLs of
\* the processed sitemaps whose fetch and parse succeeded.
C4_PdfsAreUnion ==
    (pc = "done" /\ seeds # {}) =>
        report.pdf_urls = UNION {ListedPdfs(u) : u \in report.processed_sitemaps}

\* a finished crawl whose first batch held a failed sitemap and a sitemap with
\* PDFs, and whose second batch added other PDFs
C4_Witness ==
    /\ pc = "done"
    /\ {UrlRoot, UrlRootIndex, UrlOtherSitemap} \subseteq seeds
    /\ ServedAs(UrlRootIndex, "request_error")
    /\ ServedAs(UrlOtherSitemap, "urlset")
    /\ ServedAs(UrlChildA, "text")
    /\ report.pdf_urls = {UrlPdf, UrlPdfQuery, Strip(LineTextPdf)}

\* the number of GETs issued so far
RECURSIVE SumCounts(_)
SumCounts(S) ==
    IF S = {} THEN 0
    ELSE LET u == CHOOSE x \in S : TRUE IN fetchCount[u] + SumCounts(S \ {u})

TotalFetches == SumCounts(DOMAIN fetchCount)

\* the distinct sitemap URLs discovered so far: the seeds and the same-domain
\* children of the fetched indexes
Discovered == seeds \cup UNION {SameDomainChildren(u) : u \in FetchedOk}

\* C2: with every GET returning or failing, crawl_recursive eventually returns
\* its report, and the number of GETs never exceeds the number of distinct
\* discovered sitemap URLs (cyclic sitemap graphs included).
C2_Terminates ==
    /\ [](TotalFetches <= Cardinality(Discovered))
    /\ <>(pc = "done")

\* a returned crawl over a cyclic graph in which every discovered URL was fetched
C2_Witness ==
    /\ pc = "done"
    /\ UrlRoot \in Referrers(UrlRoot) \/ UrlRoot \in Referrers(UrlChildB)
    /\ UrlChildB \in Referrers(UrlChildB)
    /\ Cardinality(Discovered) = 5
    /\ TotalFetches = 5

\* the entries of the error list that are about u
ErrorCount(errs, u) == Cardinality({i \in 1..Len(errs) : errs[i].url = u})

\* C5: a sitemap whose fetch failed has exactly one entry in the error list;
\* every fetched sitemap, failed or not, is merged (processed, its PDFs in the
\* report), every reachable sitemap of the later batches is still fetched, and
\* the only error entries are those of parse_sitemap.
C5_FailureIsolated ==
    (pc = "done" /\ seeds # {}) =>
        /\ \A u \in DOMAIN served :
              /\ u \in report.processed_sitemaps
              /\ ListedPdfs(u) \subseteq report.pdf_urls
              /\ ErrorCount(report.errors, u) = IF served[u] \in Failures THEN 1 ELSE 0
        /\ \A i \in 1..Len(report.errors) :
              /\ report.errors[i].url \in DOMAIN served
              /\ report.errors[i].msg =
                    IF served[report.errors[i].url] = "request_error"
                    THEN "Request error for" ELSE "Unexpected error parsing"
        /\ Reachable(seeds) \subseteq DOMAIN served

\* one sitemap of the first batch failed with a request error, the others of
\* the batch were merged, and the next batch ran
C5_Witness ==
    /\ pc = "done"
    /\ {UrlRootIndex, UrlOtherSitemap} \subseteq seeds
    /\ ServedAs(UrlOtherSitemap, "request_error")
    /\ ServedAs(UrlRootIndex, "cycle")
    /\ ServedAs(UrlChildA, "urlset")
    /\ report.errors = <<[msg |-> "Request error for", url |-> UrlOtherSitemap]>>
    /\ UrlPdfQuery \in report.pdf_urls

\* C6: when discovery finds no sitemap, crawl_recursive returns at once, with
\* no GET of a sitemap and no worker, a report with empty PDF and processed sets
\* and the error list ["No sitemaps found"].
C6_EmptyDiscovery ==
    (pc # "discover" /\ seeds = {}) =>
        /\ pc \in {"done", "saved"}
        /\ report.pdf_urls = {}
        /\ report.processed_sitemaps = {}
        /\ report.errors = <<[msg |-> "No sitemaps found", url |-> <<>>]>>
        /\ DOMAIN fetchCount = {}
        /\ DOMAIN worker = {}
        /\ pending_sitemaps = {}

\* the crawl has returned from an empty discovery
C6_Witness ==
    /\ pc = "done"
    /\ seeds = {}
    /\ Len(report.errors) = 1

\* C7: no step removes a URL from the processed set or from the PDF set.
C7_Monotonic ==
    [][/\ processed_sitemaps \subseteq processed_sitemaps'
       /\ pdf_urls \subseteq pdf_urls']_vars

\* both sets have grown over two batches
C7_Witness ==
    /\ pc = "wait"
    /\ current_batch \cap seeds = {}
    /\ Cardinality(processed_sitemaps) >= 4
    /\ Cardinality(pdf_urls) >= 3

\* C8: while any worker of a batch has not completed, the main thread is
\* waiting in the pool of that batch: the next batch is not drained and none of
\* its workers exists.
C8_BatchBarrier ==
    (\E u \in DOMAIN worker : worker[u].pc # "done") =>
        /\ pc = "wait"
        /\ DOMAIN worker = current_batch

\* the second batch is running after a first batch in which a worker failed
C8_Witness ==
    /\ pc = "wait"
    /\ current_batch \cap seeds = {}
    /\ \E u \in seeds : u \in DOMAIN served /\ served[u] \in Failures
    /\ \E u \in current_batch : worker[u].pc = "fetch"
    /\ \E u \in current_batch : worker[u].pc = "queued"

\* C9: every URL of the PDF set, and of the report's PDF set, passes the
\* domain filter.
C9_PdfsSameDomain ==
    \A p \in pdf_urls \cup report.pdf_urls : IsSameDomain(p, domain)

\* the report holds PDFs although a fetched sitemap listed a PDF of another host
C9_Witness ==
    /\ pc = "done"
    /\ \E u \in FetchedOk : UrlOtherPdf \in DocBody[served[u]].url_locs
    /\ \E u \in FetchedOk : UrlOtherPdf \in DocBody[served[u]].lines
    /\ report.pdf_urls # {}

\* C10: every URL of the processed set passes the domain filter, the seeds
\* that robots.txt named included.
C10_ProcessedSameDomain ==
    \A u \in processed_sitemaps \cup report.processed_sitemaps : IsSameDomain(u, domain)

\* C11: at every moment at most max_workers workers are running (sleeping,
\* fetching, recording an error or merging), also when the batch is larger than
\* max_workers; the queued URLs of the batch are all eventually run.
C11_BoundedPool ==
    /\ [](Cardinality(Running) <= max_workers)
    /\ (\E u \in DOMAIN worker : worker[u].pc = "queued")
          ~> (\A u \in DOMAIN worker : worker[u].pc = "done")

\* a batch of three with two threads: two workers run, the third URL waits
C11_Witness ==
    /\ pc = "wait"
    /\ max_workers = 2
    /\ Cardinality(current_batch) = 3
    /\ Cardinality(Running) = 2
    /\ \E u \in current_batch : worker[u].pc = "queued"

\* C12: the file save_results writes holds the three header lines, a blank
\* line, and then every PDF URL of the report exactly once in ascending
\* lexicographic order, so the PDF lines are determined by the PDF set alone;
\* no entry of the error list is written.
C12_SortedReport ==
    (pc = "saved" /\ output_file # NoFile) =>
        LET n     == Cardinality(report.pdf_urls)
            lines == SubSeq(output_file, 5, Len(output_file))
        IN  /\ Len(output_file) = 4 + n
            /\ output_file[1] = HeaderFoundOn \o base_url
            /\ output_file[2] = HeaderTotal \o Str(n)
            /\ output_file[3] = HeaderProcessed \o Str(Cardinality(report.processed_sitemaps))
            /\ output_file[4] = <<>>
            /\ {lines[i] : i \in 1..n} = report.pdf_urls
            /\ \A i \in 1..(n - 1) : StrLess(lines[i], lines[i + 1])

\* a file with three PDF lines was written after a crawl that recorded errors
C12_Witness ==
    /\ pc = "saved"
    /\ Len(report.errors) >= 1
    /\ output_file = <<HeaderFoundOn \o base_url,
                       HeaderTotal \o <<"3">>,
                       HeaderProcessed \o <<"4">>,
                       <<>>,
                       UrlPdf, Strip(LineTextPdf), UrlPdfQuery>>

\* the PDF URLs a plain-text reading of the body fetched from u yields: the
\* stripped lines that start with http, pass the domain filter and match a
\* PDF pattern
PlainTextPdfs(u) ==
    {l \in {Strip(x) : x \in DocBody[served[u]].lines} :
        /\ StartsWith(l, <<"h", "t", "t", "p">>)
        /\ IsSameDomain(l, domain)
        /\ IsPdfUrl(l)}

\* C13: when the body of a fetched sitemap is not well-formed XML it is read
\* as newline-delimited plain text, so the PDFs of a plain-text URL list are in
\* the report.
C13_MalformedFallsBack ==
    pc = "done" =>
        \A u \in FetchedOk :
            ~DocBody[served[u]].wellformed => PlainTextPdfs(u) \subseteq report.pdf_urls

\* C14: at the end of the crawl every sitemap URL whose fetch or parse failed
\* (a request error, an unexpected error, a malformed document) has an entry
\* in the report's error list.
C14_EveryFailureRecorded ==
    pc = "done" =>
        \A u \in DOMAIN served :
            (served[u] \in Failures \/ ~DocBody[served[u]].wellformed)
                => ErrorCount(report.errors, u) >= 1

\* C15: every conventional path whose HEAD probe answered 200 is a seed,
\* whatever happened on robots.txt and on the other paths; a path whose probe
\* failed or answered another status is a seed only if robots.txt named it.
C15_DiscoveryRobust ==
    probes # NoProbes =>
        \A l \in sitemap_locations :
            LET url == UrlJoin(base_url, l)
            IN  IF probes.head[l] = "200"
                THEN url \in seeds
                ELSE url \in seeds =>
                        probes.robots = "200" /\ url \in RobotsSitemaps(probes.body)

\* robots.txt and the first probe raised, the second probe answered 200 and
\* is the only seed
C15_Witness ==
    /\ probes # NoProbes
    /\ probes.robots = "exception"
    /\ probes.head[LocSitemapXml] = "exception"
    /\ probes.head[LocSitemapIndexXml] = "200"
    /\ probes.head[LocSitemapsXml] = "other"
    /\ seeds = {UrlRootIndex}
    /\ pending_sitemaps = {UrlRootIndex}

\* the domain with one leading "www." removed
StripLeadingWww(d) == IF StartsWith(d, WwwDot) THEN SubSeq(d, Len(WwwDot) + 1, Len(d)) ELSE d

\* C16: for every target domain d and URL host h the domain filter accepts h
\* if and only if h = d, or h = "www." d, or h = d with one leading "www."
\* removed; a "www." inside d is not removed.
C16_FilterRule ==
    filter_output # <<>> =>
        LET h == Netloc(filter_url)
        IN  filter_output[1] = (\/ h = domain
                                \/ h = WwwDot \o domain
                                \/ h = StripLeadingWww(domain))

\* C18: no step adds to pending a URL that is in processed at the moment of
\* the step; a worker that merges after a child URL of its sitemap was marked
\* processed does not add that URL.
C18_ProcessedNotEnqueued ==
    [][\A u \in pending_sitemaps' \ pending_sitemaps :
            u \notin processed_sitemaps /\ u \notin processed_sitemaps']_vars

\* both sitemaps of the first batch have merged; the second one lists the
\* first, which was processed by then and was not added to pending, and two
\* children, which were
C18_Witness ==
    /\ pc = "wait"
    /\ current_batch = {UrlRoot, UrlRootIndex}
    /\ PoolDrained(worker)
    /\ ServedAs(UrlRootIndex, "cycle")
    /\ UrlRoot \in processed_sitemaps
    /\ UrlRoot \notin pending_sitemaps
    /\ {UrlChildA, UrlChildB} \subseteq pending_sitemaps

\* C19: a batch drain is one step: the batch is exactly the URLs in pending
\* and not in processed at that moment and pending is empty afterwards; on an
\* empty batch the loop ends and no worker is started.
C19_AtomicDrain ==
    /\ [][(pc = "drain" /\ pc' # "drain") =>
              /\ current_batch' = pending_sitemaps \ processed_sitemaps
              /\ pending_sitemaps' = {}
              /\ processed_sitemaps' = processed_sitemaps
              /\ IF current_batch' = {}
                 THEN pc' = "finish" /\ worker' = worker
                 ELSE pc' = "submit"]_vars
    /\ [](pc \in {"finish", "done", "saved"} => Running = {} /\ pending_sitemaps \subseteq processed_sitemaps)

\* the loop ended on an empty batch: pending held only processed URLs
C19_Witness ==
    /\ pc = "finish"
    /\ current_batch = {}
    /\ UrlRoot \in processed_sitemaps
    /\ PoolDrained(worker)

\* the URLs a step passes to pending_sitemaps.update
EnqueuedByStep ==
    {u \in DOMAIN enqueueCount' : enqueueCount'[u] > Enqueued(u)}

\* C20 as stated: each sitemap URL is enqueued into pending at most once
\* during a crawl, a URL of the batch being fetched included.
C20_EnqueuedAtMostOnce ==
    \A u \in DOMAIN enqueueCount : enqueueCount[u] <= 1

\* C20, amended: a URL is added to pending only while it is neither in
\* processed nor in pending; a URL that was enqueued before is added again
\* only while it is in the batch being fetched and not yet merged, so a URL is
\* enqueued at most twice, and a URL enqueued twice is still fetched at most
\* once.
C20_EnqueuedAtMostTwice ==
    /\ [][\A u \in EnqueuedByStep :
              /\ u \notin pending_sitemaps
              /\ u \notin processed_sitemaps'
              /\ Enqueued(u) >= 1 =>
                    /\ u \in current_batch
                    /\ u \in DOMAIN worker
                    /\ worker[u].pc # "done"]_vars
    /\ [](\A u \in DOMAIN enqueueCount :
              /\ enqueueCount[u] <= 2
              /\ u \in DOMAIN fetchCount => fetchCount[u] <= 1)

\* a finished crawl in which the root was enqueued as a seed and again by a
\* sitemap of its own batch that merged first, and was fetched once
C20_Witness ==
    /\ pc = "done"
    /\ Enqueued(UrlRoot) = 2
    /\ UrlRoot \in DOMAIN fetchCount
    /\ fetchCount[UrlRoot] = 1
    /\ ServedAs(UrlRootIndex, "cycle")

\* C21: the merge of a worker is atomic for every other thread: in every
\* state a URL is in processed only if all PDF URLs parsed from it are in the
\* PDF set and each of its same-domain child sitemaps is in processed, in
\* pending or in the batch being fetched.
C21_MergeAtomic ==
    \A u \in processed_sitemaps :
        /\ ListedPdfs(u) \subseteq pdf_urls
        /\ SameDomainChildren(u) \subseteq
              processed_sitemaps \cup pending_sitemaps \cup current_batch

\* one worker of the batch has merged a sitemap with a PDF and three
\* children while the other worker of the batch is between its sleep and its GET
C21_Witness ==
    /\ pc = "wait"
    /\ current_batch = {UrlRoot, UrlRootIndex}
    /\ worker[UrlRoot].pc = "fetch"
    /\ worker[UrlRootIndex].pc = "done"
    /\ ServedAs(UrlRootIndex, "cycle")
    /\ processed_sitemaps = {UrlRootIndex}
    /\ UrlPdf \in pdf_urls
    /\ pending_sitemaps = {UrlRoot, UrlChildA, UrlChildB}

\* the number of GETs issued for u
Fetched(u) == IF u \in DOMAIN fetchCount THEN fetchCount[u] ELSE 0

\* the workers whose GET is about to be issued
AboutToFetch == {u \in DOMAIN worker : worker[u].pc = "fetch"}

\* C22 as stated: a URL is marked processed before it is dispatched, so at the
\* moment its fetch begins the URL is already in the processed set.
C22_ProcessedBeforeFetch ==
    \A u \in AboutToFetch : u \in processed_sitemaps

\* C22, amended: a URL is marked processed only by the merge that follows its
\* fetch. At the moment its fetch begins the URL is not in processed, it is in
\* the batch being fetched and no GET was issued for it before; every
\* processed URL has been fetched.
C22_ProcessedAfterFetch ==
    /\ \A u \in AboutToFetch :
          /\ u \notin processed_sitemaps
          /\ u \in current_batch
          /\ Fetched(u) = 0
    /\ \A u \in processed_sitemaps : Fetched(u) >= 1

\* in the second batch a fetch is about to begin after the other worker of
\* the batch has merged
C22_Witness ==
    /\ pc = "wait"
    /\ current_batch = {UrlChildA, UrlChildB}
    /\ UrlChildB \in AboutToFetch
    /\ UrlChildB \notin processed_sitemaps
    /\ {UrlRoot, UrlChildA} \subseteq processed_sitemaps

\* the sitemap URLs whose fetch failed
FailedUrls == {u \in DOMAIN served : served[u] \in Failures}

\* C23: a sitemap URL whose fetch failed is marked processed like a
\* successful one and is never fetched again, even when sitemaps fetched later
\* reference it; it contributes no PDFs and no child sitemaps.
C23_FailedNotRetried ==
    /\ [](\A u \in FailedUrls :
              /\ Fetched(u) = 1
              /\ u \notin processed_sitemaps =>
                    /\ u \in DOMAIN worker
                    /\ worker[u].pc \in Failures \cup {"merge"}
                    /\ worker[u].result = EmptyResult)
    /\ [][\A u \in FailedUrls :
              /\ u \in FailedUrls'
              /\ fetchCount'[u] = fetchCount[u]
              /\ u \in processed_sitemaps' \ processed_sitemaps =>
                    /\ pdf_urls' = pdf_urls
                    /\ pending_sitemaps' = pending_sitemaps]_vars

\* a finished crawl in which the root failed in the first batch and was
\* referenced by a sitemap of the second batch
C23_Witness ==
    /\ pc = "done"
    /\ UrlRoot \in FailedUrls
    /\ ServedAs(UrlChildB, "cycle")
    /\ UrlRoot \in SameDomainChildren(UrlChildB)
    /\ Fetched(UrlRoot) = 1
    /\ UrlRoot \in report.processed_sitemaps

\* C24: when crawl_recursive has returned after a non-empty discovery, pending
\* is empty, no worker is running or queued, and the report's processed set,
\* PDF set and error list equal the final contents of the crawler's fields.
C24_FixedPointAtReturn ==
    (pc \in {"done", "saved"} /\ seeds # {}) =>
        /\ pending_sitemaps = {}
        /\ Running = {}
        /\ PoolDrained(worker)
        /\ seeds \subseteq processed_sitemaps
        /\ report.processed_sitemaps = processed_sitemaps
        /\ report.sitemap_urls = processed_sitemaps
        /\ report.pdf_urls = pdf_urls
        /\ report.errors = errors

\* the crawl has returned through the break on an empty batch, after two
\* batches that recorded PDFs and an error
C24_Witness ==
    /\ pc = "done"
    /\ current_batch = {}
    /\ Enqueued(UrlRoot) = 2
    /\ report.pdf_urls # {}
    /\ Len(report.errors) >= 1
    /\ Cardinality(report.processed_sitemaps) >= 3

\* the shared frontier state
frontier == <<pdf_urls, processed_sitemaps, pending_sitemaps, errors>>

\* C25: in every worker the delay comes before the network call: the sleep
\* for a URL completes before the GET of that URL is issued, once per URL,
\* and nothing of the shared frontier is changed on behalf of a worker that
\* is sleeping.
C25_DelayBeforeFetch ==
    /\ [](\A u \in DOMAIN worker \cup DOMAIN fetchCount \cup DOMAIN sleepCount :
              /\ Slept(u) <= 1
              /\ Fetched(u) <= Slept(u)
              /\ (u \in DOMAIN worker /\ worker[u].pc = "fetch") =>
                    Slept(u) = 1 /\ Fetched(u) = 0
              /\ (u \in DOMAIN worker /\ worker[u].pc = "sleep") =>
                    /\ Slept(u) = 0
                    /\ Fetched(u) = 0
                    /\ u \notin processed_sitemaps
                    /\ ErrorCount(errors, u) = 0)
    /\ [][\A u \in DOMAIN sleepCount' :
              sleepCount'[u] > Slept(u) => frontier' = frontier /\ history' = history]_vars

\* with two threads, one worker has slept and is about to issue its GET
\* while the other is still sleeping and a third URL is queued
C25_Witness ==
    /\ pc = "wait"
    /\ max_workers = 2
    /\ \E u, v \in current_batch :
          /\ worker[u].pc = "fetch"
          /\ Slept(u) = 1
          /\ worker[v].pc = "sleep"
          /\ Slept(v) = 0
    /\ \E w \in current_batch : worker[w].pc = "queued"

====
